---------------------------- MODULE Spec2Model ----------------------------
(***************************************************************************)
(* A model of fricgan (src/src/lib.rs): the [u8] byte-buffer primitive,    *)
(* the fixed-width scalar codec (IO), the variable-length-quantity codec   *)
(* (VLQ) and the two length-prefixed string framings (FricganString,       *)
(* VLQString).                                                             *)
(*                                                                         *)
(* A byte is an integer 0..255 and a byte buffer a sequence of bytes; the  *)
(* Rust index i is the sequence index i + 1.  A scalar is the sequence of  *)
(* its base-256 digits (TLC's integers are narrower than u32 and u64).     *)
(*                                                                         *)
(* The library keeps no state of its own.  The state below is that of a    *)
(* caller shaped like the crate's tests: a value `a` that is written to    *)
(* `buf`, a value `b` that is read back from `buf`, and a second sink      *)
(* `buf2` that `b` is written to; likewise the strings `sa` and `sb`.      *)
(***************************************************************************)
EXTENDS Integers, Sequences, FiniteSets

VARIABLES
    build,      \* the build: target endianness, overflow checks, features
    ty,         \* the scalar type in use: "u32"/"u64" (VLQ) or a width name
    a,          \* the scalar that is written (digits, lowest first)
    b,          \* the scalar that is read into
    sa,         \* the String that is written (its bytes)
    sb,         \* the String that is read into
    buf,        \* the byte buffer written to and read from
    a0,         \* a as it was before the first call (ghost)
    sa0,        \* sa as it was before the first call (ghost)
    sb0,        \* sb as it was before the first call (ghost)
    buf0,       \* buf as it was before the first call (ghost)
    buf2,       \* a second sink
    pc,         \* the caller's position
    ret,        \* return value of each call made so far: [w, r, w2]
    outcome,    \* "ok", or "panic"/"ub" once a call did not return normally
    nread,      \* source bytes the last vlq_read indexed (ghost)
    stream,     \* the byte stream of the std adapter: [data, pos, room, cap]
    hist        \* the caller's calls so far: [wrote, got, rets, off]

vars ==
    <<build, ty, a, b, sa, sb, a0, sa0, sb0, buf, buf0, buf2, pc, ret,
      outcome, nread, stream, hist>>

---------------------------------------------------------------------------
(* Bounds of the model.                                                    *)

\* values drawn for a scalar have at most this many bits set (or are 2^k-1)
MaxSetBits == 2
\* length of the sinks handed to vlq_write
SinkLen == 12
\* length of the raw sources handed to vlq_read
SrcLen == 12

---------------------------------------------------------------------------
(* Bytes and scalars.  A scalar of n bytes is the sequence of its n        *)
(* base-256 digits, least significant digit first: this is its numeric     *)
(* value, whatever the byte order of the host.                             *)

Pow2(n) == IF n = 0 THEN 1 ELSE IF n = 1 THEN 2 ELSE IF n = 2 THEN 4
           ELSE IF n = 3 THEN 8 ELSE IF n = 4 THEN 16 ELSE IF n = 5 THEN 32
           ELSE IF n = 6 THEN 64 ELSE IF n = 7 THEN 128 ELSE 256

Byte == 0..255

\* the sequence f[1], ..., f[n], with every element evaluated
RECURSIVE SeqOf(_, _)
SeqOf(f, n) == IF n = 0 THEN <<>> ELSE Append(SeqOf(f, n - 1), f[n])

\* the scalar 0 of n bytes
Zero(n) == SeqOf([i \in 1..n |-> 0], n)

\* the scalar of n bytes whose set bits are the positions S (0 = lowest)
FromBitSet(n, S) ==
    SeqOf([i \in 1..n |->
              LET bit(j) == IF (8 * (i - 1) + j) \in S THEN Pow2(j) ELSE 0
              IN  bit(0) + bit(1) + bit(2) + bit(3) + bit(4) + bit(5)
                  + bit(6) + bit(7)], n)

\* 2^k - 1 as a scalar of n bytes
Ones(n, k) == FromBitSet(n, 0..(k - 1))

\* digit j (1-based) of x, 0 outside the scalar
Digit(x, j) == IF j >= 1 /\ j <= Len(x) THEN x[j] ELSE 0

\* `x as u8`: the low eight bits of a scalar
AsU8(x) == x[1]

\* `x as Self` for a byte x: zero-extension to n bytes
AsSelf(x, n) == SeqOf([i \in 1..n |-> IF i = 1 THEN x ELSE 0], n)

\* `x >> k` (k smaller than the width in bits)
Shr(x, k) ==
    LET q == k \div 8
        r == k % 8
    IN  SeqOf([i \in 1..Len(x) |->
                  (Digit(x, i + q) \div Pow2(r))
                  + (Digit(x, i + q + 1) % Pow2(r)) * Pow2(8 - r)], Len(x))

\* `x << k` (k smaller than the width in bits): bits shifted out are dropped
Shl(x, k) ==
    LET q == k \div 8
        r == k % 8
    IN  SeqOf([i \in 1..Len(x) |->
                  ((Digit(x, i - q) * Pow2(r)) % 256)
                  + (Digit(x, i - q - 1) \div Pow2(8 - r))], Len(x))

\* `x >= 128`
Ge128(x) == x[1] >= 128 \/ \E i \in 2..Len(x) : x[i] # 0

\* carry into digit i (1-based) of x + y
RECURSIVE CarryInto(_, _, _)
CarryInto(x, y, i) ==
    IF i = 1 THEN 0
    ELSE (x[i - 1] + y[i - 1] + CarryInto(x, y, i - 1)) \div 256

\* x + y modulo 2^(8n), and whether the true sum needs more than n bytes
AddWrapping(x, y) ==
    SeqOf([i \in 1..Len(x) |-> (x[i] + y[i] + CarryInto(x, y, i)) % 256],
          Len(x))

AddOverflows(x, y) == CarryInto(x, y, Len(x) + 1) = 1

---------------------------------------------------------------------------
(* The build.  Arithmetic overflow panics when overflow checks are on (a   *)
(* debug build) and wraps when they are off (a release build).             *)

Builds ==
    [endian : {"little", "big"}, overflowChecks : BOOLEAN,
     unsafe : BOOLEAN, safetyChecks : BOOLEAN]

\* the builds that differ for code that uses neither IO nor the byte order
ArithBuilds ==
    {bd \in Builds : bd.endian = "little" /\ ~bd.unsafe /\ ~bd.safetyChecks}

\* size_of::<T>() and the width in bits.  The signed and the float types
\* of a width share the code of the unsigned one.
SizeOf(t) ==
    IF t = "u8" THEN 1 ELSE IF t = "u16" THEN 2 ELSE IF t = "u32" THEN 4
    ELSE 8

BitWidth(t) == 8 * SizeOf(t)

---------------------------------------------------------------------------
(* VLQ (lib.rs 765-844).                                                   *)

Ceiling32 == 35
Ceiling64 == 71

\* the two ceilings taken for one another
Ceiling_Swapped(t) == IF t = "u32" THEN Ceiling64 ELSE Ceiling32

Ceiling(t) == IF t = "u32" THEN Ceiling32 ELSE Ceiling64

\* a continuation byte written without its flag
ContinuationByte_NoFlag(remainder) == AsU8(remainder)

\* `remainder as u8 | 128`
ContinuationByte(remainder) == (AsU8(remainder) % 128) + 128

\* The loop of vlq_write from the state (remainder, i); sink[i] panics when
\* i is out of bounds.  The result holds the sink and the value returned.
RECURSIVE VlqWriteLoop(_, _, _)
VlqWriteLoop(remainder, sink, i) ==
    IF Ge128(remainder)
    THEN IF i >= Len(sink)
         THEN [outcome |-> "panic", sink |-> sink, ret |-> 0]
         ELSE VlqWriteLoop(Shr(remainder, 7),
                           [sink EXCEPT ![i + 1] = ContinuationByte(remainder)],
                           i + 1)
    ELSE IF i >= Len(sink)
         THEN [outcome |-> "panic", sink |-> sink, ret |-> 0]
         ELSE [outcome |-> "ok",
               sink |-> [sink EXCEPT ![i + 1] = AsU8(remainder)],
               ret |-> i]

\* self.vlq_write(sink)
VlqWrite(self, sink) == VlqWriteLoop(self, sink, 0)

\* the shift without the mask `& 127`
VlqShifted_NoMask(x, bits, n, bd) ==
    IF bits < 8 * n
    THEN [outcome |-> "ok", value |-> Shl(AsSelf(x, n), bits)]
    ELSE IF bd.overflowChecks THEN [outcome |-> "panic", value |-> Zero(n)]
    ELSE [outcome |-> "ok", value |-> Shl(AsSelf(x, n), bits % (8 * n))]

\* `((b & 127) as Self) << bits`: a shift by the width or more panics under
\* overflow checks and is taken modulo the width without them.
VlqShifted(x, bits, n, bd) ==
    IF bits < 8 * n
    THEN [outcome |-> "ok", value |-> Shl(AsSelf(x % 128, n), bits)]
    ELSE IF bd.overflowChecks THEN [outcome |-> "panic", value |-> Zero(n)]
    ELSE [outcome |-> "ok", value |-> Shl(AsSelf(x % 128, n), bits % (8 * n))]

\* The loop of vlq_read from the state (*self, bits, i).
RECURSIVE VlqReadLoop(_, _, _, _, _, _)
VlqReadLoop(self, bits, i, source, ceiling, bd) ==
    IF bits = ceiling
    THEN [outcome |-> "ok", self |-> self, ret |-> i, nread |-> i]
    ELSE IF i >= Len(source)
    THEN [outcome |-> "panic", self |-> self, ret |-> 0, nread |-> i]
    ELSE LET x  == source[i + 1]
             sh == VlqShifted(x, bits, Len(self), bd)
         IN  IF sh.outcome = "panic"
                \/ (bd.overflowChecks /\ AddOverflows(self, sh.value))
             THEN [outcome |-> "panic", self |-> self, ret |-> 0,
                   nread |-> i + 1]
             ELSE LET acc == AddWrapping(self, sh.value)
                  IN  IF x < 128
                      THEN [outcome |-> "ok", self |-> acc, ret |-> i,
                            nread |-> i + 1]
                      ELSE VlqReadLoop(acc, bits + 7, i + 1, source,
                                       ceiling, bd)

\* self.vlq_read(source): *self = 0 first
VlqRead(self, source, ceiling, bd) ==
    VlqReadLoop(Zero(Len(self)), 0, 0, source, ceiling, bd)

---------------------------------------------------------------------------
(* The caller of the VLQ codec.                                            *)

VlqTypes == {"u32", "u64"}

\* the bit positions drawn: the lowest and the highest bit of every 7-bit
\* group, and the top bit
Positions(w) == {i \in 0..(w - 1) : i % 7 \in {0, 6}} \cup {w - 1}

\* the sets of at most k positions
RECURSIVE BitSets(_, _)
BitSets(w, k) ==
    IF k = 0 THEN {{}}
    ELSE LET prev == BitSets(w, k - 1)
         IN  prev \cup {S \cup {i} : S \in prev, i \in Positions(w)}

\* the values drawn for a scalar of n bytes: every 2^k - 1, and every value
\* with at most MaxSetBits bits set among Positions(8 * n)
Values(n) ==
    {Ones(n, k) : k \in 0..(8 * n)}
    \cup {FromBitSet(n, S) : S \in BitSets(8 * n, MaxSetBits)}

FillBytes == {0, 255}

\* the raw sources handed to vlq_read
RawSources == [1..SrcLen -> {1, 255}]

NoRet == [w |-> -1, r |-> -1, w2 |-> -1]

\* no stream, and no call made yet
NoStream == [data |-> <<>>, pos |-> 0, room |-> 0, cap |-> 0]

NoHist == [wrote |-> <<>>, got |-> <<>>, rets |-> <<>>, off |-> 0]

InitVlq ==
    /\ build \in ArithBuilds
    /\ ty \in VlqTypes
    /\ sa = <<>> /\ sb = <<>> /\ buf2 = <<>>
    /\ ret = NoRet /\ outcome = "ok" /\ nread = 0
    /\ b \in {Zero(SizeOf(ty)), Ones(SizeOf(ty), BitWidth(ty))}
    /\ \/ /\ pc = "start"
          /\ a \in Values(SizeOf(ty))
          /\ \E f \in FillBytes : buf = [i \in 1..SinkLen |-> f]
       \/ /\ pc = "raw"
          /\ a = Zero(SizeOf(ty))
          /\ buf \in RawSources
    /\ buf0 = buf /\ a0 = a /\ sa0 = sa /\ sb0 = sb
    /\ stream = NoStream /\ hist = NoHist

\* a.vlq_write(&mut buf[..])
DoVlqWrite ==
    /\ pc = "start" /\ outcome = "ok"
    /\ LET res == VlqWrite(a, buf)
       IN  /\ buf' = res.sink
           /\ outcome' = res.outcome
           /\ ret' = [ret EXCEPT !.w = res.ret]
    /\ pc' = "written"
    /\ UNCHANGED <<build, ty, a, b, sa, sb, a0, sa0, sb0, buf0, buf2, nread,
                   stream, hist>>

\* b.vlq_read(&buf[..])
DoVlqRead ==
    /\ pc \in {"written", "raw"} /\ outcome = "ok"
    /\ LET res == VlqRead(b, buf, Ceiling(ty), build)
       IN  /\ b' = res.self
           /\ outcome' = res.outcome
           /\ nread' = res.nread
           /\ ret' = [ret EXCEPT !.r = res.ret]
    /\ pc' = IF pc = "raw" THEN "rawread" ELSE "read"
    /\ UNCHANGED <<build, ty, a, sa, sb, a0, sa0, sb0, buf, buf0, buf2,
                   stream, hist>>

NextVlq == DoVlqWrite \/ DoVlqRead

SpecVlq == InitVlq /\ [][NextVlq]_vars

---------------------------------------------------------------------------
(* IO for [u8] (lib.rs 101-154).  A call whose peer is too short panics    *)
(* (the assertion of safety-checks, or the index of the safe loop after    *)
(* the bytes that fit were copied) or, in the unsafe build without the     *)
(* assertion, is undefined: ptr::copy_nonoverlapping runs past the peer.   *)
(* Each operator gives the set of results the call can have.               *)

\* what a byte left to undefined behaviour may hold
GarbageBytes == {0, 255}

\* first n elements of s
Prefix(s, n) == SubSeq(s, 1, n)

\* s[k..]: the elements from Rust index k on
From(s, k) == SubSeq(s, k + 1, Len(s))

\* dst with its first Len(src) bytes replaced by src (Len(src) <= Len(dst))
Overwrite(dst, src) == src \o From(dst, Len(src))

\* a fio_write that returns the length of the sink
SliceWrite_PeerLen(self, sink, bd) ==
    IF Len(self) <= Len(sink)
    THEN {[outcome |-> "ok", self |-> self, sink |-> Overwrite(sink, self),
           ret |-> Len(sink)]}
    ELSE {[outcome |-> "panic", self |-> self, sink |-> sink, ret |-> 0]}

\* self.fio_write(sink) for self: [u8]
SliceWrite(self, sink, bd) ==
    IF Len(self) <= Len(sink)
    THEN {[outcome |-> "ok", self |-> self, sink |-> Overwrite(sink, self),
           ret |-> Len(self)]}
    ELSE IF bd.safetyChecks
    THEN {[outcome |-> "panic", self |-> self, sink |-> sink, ret |-> 0]}
    ELSE IF ~bd.unsafe
    THEN {[outcome |-> "panic", self |-> self,
           sink |-> Prefix(self, Len(sink)), ret |-> 0]}
    ELSE {[outcome |-> "ub", self |-> self, sink |-> s, ret |-> Len(self)] :
            s \in {sink, Prefix(self, Len(sink))}}

\* self.fio_read(source) for self: [u8]
SliceRead(self, source, bd) ==
    IF Len(self) <= Len(source)
    THEN {[outcome |-> "ok", self |-> Prefix(source, Len(self)),
           ret |-> Len(self)]}
    ELSE IF bd.safetyChecks
    THEN {[outcome |-> "panic", self |-> self, ret |-> 0]}
    ELSE IF ~bd.unsafe
    THEN {[outcome |-> "panic", self |-> Overwrite(self, source), ret |-> 0]}
    ELSE {[outcome |-> "ub",
           self |-> source \o [i \in 1..(Len(self) - Len(source)) |-> g],
           ret |-> Len(self)] : g \in GarbageBytes}

---------------------------------------------------------------------------
(* IO for the scalars (lib.rs 156-621).  The one-byte types assign the     *)
(* byte; the others view the scalar's memory as a [u8] of size_of::<Self>  *)
(* bytes (from_raw_parts_mut) and use the [u8] implementation.             *)

RECURSIVE Reverse(_)
Reverse(s) == IF s = <<>> THEN <<>> ELSE Append(Reverse(Tail(s)), Head(s))

\* the memory of a scalar read as if the host had the other byte order
MemoryOf_OtherOrder(v, endian) == IF endian = "little" THEN Reverse(v) ELSE v

\* the memory of the scalar v on the host: its digits, lowest first on a
\* little-endian host and highest first on a big-endian one
MemoryOf(v, endian) == IF endian = "little" THEN v ELSE Reverse(v)

\* the scalar whose memory is mem
ValueOf(mem, endian) == IF endian = "little" THEN mem ELSE Reverse(mem)

\* a fio_read that takes the bytes from source[1..]
ScalarRead_OffByOne(t, self, source, bd) ==
    IF SizeOf(t) = 1
    THEN IF Len(source) = 0
         THEN {[outcome |-> "panic", self |-> self, ret |-> 0]}
         ELSE {[outcome |-> "ok", self |-> <<source[1]>>, ret |-> 1]}
    ELSE {[outcome |-> r.outcome, self |-> ValueOf(r.self, bd.endian),
           ret |-> r.ret] :
            r \in SliceRead(MemoryOf(self, bd.endian), From(source, 1), bd)}

\* self.fio_read(source) for a scalar self of type t
ScalarRead(t, self, source, bd) ==
    IF SizeOf(t) = 1
    THEN IF Len(source) = 0
         THEN {[outcome |-> "panic", self |-> self, ret |-> 0]}
         ELSE {[outcome |-> "ok", self |-> <<source[1]>>, ret |-> 1]}
    ELSE {[outcome |-> r.outcome, self |-> ValueOf(r.self, bd.endian),
           ret |-> r.ret] :
            r \in SliceRead(MemoryOf(self, bd.endian), source, bd)}

\* self.fio_write(sink) for a scalar self of type t
ScalarWrite(t, self, sink, bd) ==
    IF SizeOf(t) = 1
    THEN IF Len(sink) = 0
         THEN {[outcome |-> "panic", self |-> self, sink |-> sink, ret |-> 0]}
         ELSE {[outcome |-> "ok", self |-> self,
                sink |-> [sink EXCEPT ![1] = self[1]], ret |-> 1]}
    ELSE {[outcome |-> r.outcome, self |-> ValueOf(r.self, bd.endian),
           sink |-> r.sink, ret |-> r.ret] :
            r \in SliceWrite(MemoryOf(self, bd.endian), sink, bd)}

---------------------------------------------------------------------------
(* The caller of the fixed-width codec: a.fio_write(buf), b.fio_read(buf), *)
(* b.fio_write(buf2), as test_io_u16 .. test_io_f64 do.                    *)

FioTypes == {"u8", "u16", "u32", "u64"}

\* the builds that differ for code without arithmetic
IoBuilds == {bd \in Builds : ~bd.overflowChecks}

\* the bytes of the raw sources handed to fio_read
RawBytes == {1, 254}

InitFio ==
    /\ build \in IoBuilds
    /\ ty \in FioTypes
    /\ sa = <<>> /\ sb = <<>>
    /\ ret = NoRet /\ outcome = "ok" /\ nread = 0
    /\ b = Zero(SizeOf(ty))
    /\ buf2 = [i \in 1..(SizeOf(ty) + 1) |-> 170]
    /\ \/ /\ pc = "start"
          /\ a \in Values(SizeOf(ty))
          /\ \E f \in FillBytes, n \in (SizeOf(ty) - 1)..(SizeOf(ty) + 1) :
                buf = [i \in 1..n |-> f]
       \/ /\ pc = "raw"
          /\ a = Zero(SizeOf(ty))
          /\ \E n \in (SizeOf(ty) - 1)..(SizeOf(ty) + 1) :
                buf \in [1..n -> RawBytes]
    /\ buf0 = buf /\ a0 = a /\ sa0 = sa /\ sb0 = sb
    /\ stream = NoStream /\ hist = NoHist

\* a.fio_write(&mut buf[..])
DoFioWrite ==
    /\ pc = "start" /\ outcome = "ok"
    /\ \E res \in ScalarWrite(ty, a, buf, build) :
          /\ a' = res.self
          /\ buf' = res.sink
          /\ outcome' = res.outcome
          /\ ret' = [ret EXCEPT !.w = res.ret]
    /\ pc' = "written"
    /\ UNCHANGED <<build, ty, b, sa, sb, a0, sa0, sb0, buf0, buf2, nread,
                   stream, hist>>

\* b.fio_read(&buf[..])
DoFioRead ==
    /\ pc \in {"written", "raw"} /\ outcome = "ok"
    /\ \E res \in ScalarRead(ty, b, buf, build) :
          /\ b' = res.self
          /\ outcome' = res.outcome
          /\ ret' = [ret EXCEPT !.r = res.ret]
    /\ pc' = IF pc = "raw" THEN "rawread" ELSE "read"
    /\ UNCHANGED <<build, ty, a, sa, sb, a0, sa0, sb0, buf, buf0, buf2, nread,
                   stream, hist>>

\* b.fio_write(&mut buf2[..])
DoFioWriteBack ==
    /\ pc \in {"read", "rawread"} /\ outcome = "ok"
    /\ \E res \in ScalarWrite(ty, b, buf2, build) :
          /\ b' = res.self
          /\ buf2' = res.sink
          /\ outcome' = res.outcome
          /\ ret' = [ret EXCEPT !.w2 = res.ret]
    /\ pc' = IF pc = "rawread" THEN "rawrewritten" ELSE "rewritten"
    /\ UNCHANGED <<build, ty, a, sa, sb, a0, sa0, sb0, buf, buf0, nread,
                   stream, hist>>

NextFio == DoFioWrite \/ DoFioRead \/ DoFioWriteBack

SpecFio == InitFio /\ [][NextFio]_vars

---------------------------------------------------------------------------
(* Strings (lib.rs 850-997).  A String is the sequence of its bytes.  The  *)
(* length type V is a scalar type; from_usize(..).unwrap() panics when the *)
(* length does not fit V.                                                  *)

\* whether the usize n fits the scalar type t (a usize of the model is
\* far below 2^32)
FitsIn(n, t) == SizeOf(t) >= 4 \/ (SizeOf(t) = 1 /\ n < 256) \/ (SizeOf(t) = 2 /\ n < 65536)

\* V::from_usize(n).unwrap() for n that fits
FromUsize(n, t) ==
    SeqOf([i \in 1..SizeOf(t) |->
              IF i = 1 THEN n % 256
              ELSE IF i = 2 THEN (n \div 256) % 256
              ELSE IF i = 3 THEN (n \div 65536) % 256
              ELSE 0], SizeOf(t))

\* whether V::to_usize(&v) is a length the model holds: below 2^16
SmallUsize(v) == \A i \in 3..Len(v) : v[i] = 0

\* V::to_usize(&v).unwrap() for such v
ToUsize(v) == Digit(v, 1) + 256 * Digit(v, 2)

\* a set_len that only ever grows the String
SetLen_GrowOnly(s, n, g) ==
    IF n <= Len(s) THEN s ELSE s \o [i \in 1..(n - Len(s)) |-> g]

\* vv.set_len(n) on a String s whose capacity is at least n: the first n
\* bytes of the allocation, those past the old length being whatever the
\* allocation holds (g)
SetLen(s, n, g) ==
    IF n <= Len(s) THEN Prefix(s, n)
    ELSE s \o [i \in 1..(n - Len(s)) |-> g]

\* self.fio_string_write::<V>(sink), V = t
FioStringWrite(t, self, sink, bd) ==
    IF ~FitsIn(Len(self), t)
    THEN {[outcome |-> "panic", self |-> self, sink |-> sink, ret |-> 0]}
    ELSE UNION {
        IF w.outcome # "ok"
        THEN {[outcome |-> w.outcome, self |-> self, sink |-> w.sink,
               ret |-> 0]}
        ELSE LET length_usize == ToUsize(w.self)
                 v == SetLen(self, length_usize, 0)
             IN  IF SizeOf(t) > Len(w.sink)
                 THEN {[outcome |-> "panic", self |-> v, sink |-> w.sink,
                        ret |-> 0]}
                 ELSE {[outcome |-> p.outcome, self |-> p.self,
                        sink |-> Prefix(w.sink, SizeOf(t)) \o p.sink,
                        ret |-> w.ret + p.ret] :
                          p \in SliceWrite(v, From(w.sink, SizeOf(t)), bd)}
        : w \in ScalarWrite(t, FromUsize(Len(self), t), sink, bd)}

\* self.fio_string_read::<V>(source), V = t.  A length the source cannot
\* hold ends in the panic of the allocation or of the copy.
FioStringRead(t, self, source, bd) ==
    UNION {
        IF r.outcome # "ok"
        THEN {[outcome |-> r.outcome, self |-> self, ret |-> 0]}
        ELSE IF ~SmallUsize(r.self) \/ SizeOf(t) > Len(source)
        THEN {[outcome |-> "panic", self |-> self, ret |-> 0]}
        ELSE LET length_usize == ToUsize(r.self)
             IN  UNION {
                   {[outcome |-> p.outcome, self |-> p.self,
                     ret |-> r.ret + p.ret] :
                       p \in SliceRead(SetLen(self, length_usize, g),
                                       From(source, SizeOf(t)), bd)}
                   : g \in GarbageBytes}
        : r \in ScalarRead(t, Zero(SizeOf(t)), source, bd)}

\* self.vlq_string_write::<V>(sink), V = t: the length of the slice that
\* is copied is the value vlq_write returned
VlqStringWrite(t, self, sink, bd) ==
    IF ~FitsIn(Len(self), t)
    THEN {[outcome |-> "panic", self |-> self, sink |-> sink, ret |-> 0]}
    ELSE LET w == VlqWrite(FromUsize(Len(self), t), sink)
             length_usize == w.ret
         IN  IF w.outcome # "ok"
             THEN {[outcome |-> "panic", self |-> self, sink |-> w.sink,
                    ret |-> 0]}
             ELSE IF length_usize > Len(self)
             THEN {[outcome |-> "ub", self |-> SetLen(self, length_usize, g),
                    sink |-> w.sink, ret |-> 0] : g \in GarbageBytes}
             ELSE IF length_usize > Len(w.sink)
             THEN {[outcome |-> "panic",
                    self |-> SetLen(self, length_usize, 0),
                    sink |-> w.sink, ret |-> 0]}
             ELSE {[outcome |-> p.outcome, self |-> p.self,
                    sink |-> Prefix(w.sink, length_usize) \o p.sink,
                    ret |-> w.ret + p.ret] :
                      p \in SliceWrite(SetLen(self, length_usize, 0),
                                       From(w.sink, length_usize), bd)}

\* self.vlq_string_read::<V>(source), V = t: the length of the String is
\* set to the value vlq_read returned
VlqStringRead(t, self, source, bd) ==
    LET r == VlqRead(Zero(SizeOf(t)), source, Ceiling(t), bd)
        length_usize == r.ret
    IN  IF r.outcome # "ok"
        THEN {[outcome |-> "panic", self |-> self, ret |-> 0]}
        ELSE IF length_usize > Len(source)
        THEN {[outcome |-> "panic", self |-> SetLen(self, length_usize, g),
               ret |-> 0] : g \in GarbageBytes}
        ELSE UNION {
               {[outcome |-> p.outcome, self |-> p.self,
                 ret |-> r.ret + p.ret] :
                   p \in SliceRead(SetLen(self, length_usize, g),
                                   From(source, length_usize), bd)}
               : g \in GarbageBytes}

---------------------------------------------------------------------------
(* The caller of the string framings: sa is written to buf and sb is read  *)
(* back from it, as test_io_string and test_vlq_string do.                 *)

\* the longest String drawn
MaxStrLen == 130

\* the Strings drawn: every length up to MaxStrLen, printable ASCII
Strings ==
    {[i \in 1..n |-> 32 + ((i + k) % 95)] :
        n \in 0..MaxStrLen, k \in {0, 50}}

\* what the String read into holds before the call
OldStrings == {<<>>, <<120, 121, 122>>}

\* the lengths of the frames handed to vlq_string_read as they come
RawLens == {0, 1, 3, 128}

\* a frame as the wire format lays it out: the length n (below 2^14) in
\* 7-bit groups, lowest first, the high bit set on all but the last, then
\* n payload bytes
FrameOf(n) ==
    (IF n < 128 THEN <<n>> ELSE <<128 + (n % 128), n \div 128>>)
    \o [i \in 1..n |-> 65 + (i % 26)]

\* what follows a frame in its source
Tails == {<<>>, <<255, 255>>}

InitStr ==
    /\ build \in Builds
    /\ ty \in FioTypes
    /\ a = Zero(SizeOf(ty)) /\ b = Zero(SizeOf(ty)) /\ buf2 = <<>>
    /\ ret = NoRet /\ outcome = "ok" /\ nread = 0
    /\ sb \in OldStrings
    /\ \/ /\ pc = "start"
          /\ sa \in Strings
          /\ \E f \in FillBytes :
                buf = [i \in 1..(SizeOf(ty) + Len(sa)) |-> f]
       \/ /\ pc = "raw"
          /\ ty \in VlqTypes
          /\ sa = <<>>
          /\ \E n \in RawLens, t \in Tails : buf = FrameOf(n) \o t
    /\ buf0 = buf /\ a0 = a /\ sa0 = sa /\ sb0 = sb
    /\ stream = NoStream /\ hist = NoHist

\* sa.fio_string_write::<V>(&mut buf[..])
DoFioStringWrite ==
    /\ pc = "start" /\ outcome = "ok"
    /\ \E res \in FioStringWrite(ty, sa, buf, build) :
          /\ sa' = res.self
          /\ buf' = res.sink
          /\ outcome' = res.outcome
          /\ ret' = [ret EXCEPT !.w = res.ret]
    /\ pc' = "fio_written"
    /\ UNCHANGED <<build, ty, a, b, sb, a0, sa0, sb0, buf0, buf2, nread,
                   stream, hist>>

\* sb.fio_string_read::<V>(&buf[..])
DoFioStringRead ==
    /\ pc = "fio_written" /\ outcome = "ok"
    /\ \E res \in FioStringRead(ty, sb, buf, build) :
          /\ sb' = res.self
          /\ outcome' = res.outcome
          /\ ret' = [ret EXCEPT !.r = res.ret]
    /\ pc' = "fio_read"
    /\ UNCHANGED <<build, ty, a, b, sa, a0, sa0, sb0, buf, buf0, buf2, nread,
                   stream, hist>>

\* sa.vlq_string_write::<V>(&mut buf[..])
DoVlqStringWrite ==
    /\ pc = "start" /\ outcome = "ok" /\ ty \in VlqTypes
    /\ \E res \in VlqStringWrite(ty, sa, buf, build) :
          /\ sa' = res.self
          /\ buf' = res.sink
          /\ outcome' = res.outcome
          /\ ret' = [ret EXCEPT !.w = res.ret]
    /\ pc' = "vlq_written"
    /\ UNCHANGED <<build, ty, a, b, sb, a0, sa0, sb0, buf0, buf2, nread,
                   stream, hist>>

\* sb.vlq_string_read::<V>(&buf[..])
DoVlqStringRead ==
    /\ pc \in {"vlq_written", "raw"} /\ outcome = "ok"
    /\ \E res \in VlqStringRead(ty, sb, buf, build) :
          /\ sb' = res.self
          /\ outcome' = res.outcome
          /\ ret' = [ret EXCEPT !.r = res.ret]
    /\ pc' = IF pc = "raw" THEN "vlq_rawread" ELSE "vlq_read"
    /\ UNCHANGED <<build, ty, a, b, sa, a0, sa0, sb0, buf, buf0, buf2, nread,
                   stream, hist>>

NextStr ==
    DoFioStringWrite \/ DoFioStringRead \/ DoVlqStringWrite
    \/ DoVlqStringRead

SpecStr == InitStr /\ [][NextStr]_vars

---------------------------------------------------------------------------
(* The caller of the [u8] primitive: the slice sa is written to buf, and   *)
(* the slice sb is read from buf.                                          *)

\* the longest slice drawn
MaxSliceLen == 3

\* the slices drawn
Slices == UNION {[1..n -> RawBytes] : n \in 0..MaxSliceLen}

InitSlice ==
    /\ build \in IoBuilds
    /\ ty = "u8"
    /\ a = Zero(1) /\ b = Zero(1) /\ buf2 = <<>>
    /\ ret = NoRet /\ outcome = "ok" /\ nread = 0
    /\ pc = "start"
    /\ sa \in Slices
    /\ sb \in Slices
    /\ \E f \in FillBytes, n \in 0..(MaxSliceLen + 1) : buf = [i \in 1..n |-> f]
    /\ buf0 = buf /\ a0 = a /\ sa0 = sa /\ sb0 = sb
    /\ stream = NoStream /\ hist = NoHist

\* sa.fio_write(&mut buf[..])
DoSliceWrite ==
    /\ pc = "start" /\ outcome = "ok"
    /\ \E res \in SliceWrite(sa, buf, build) :
          /\ sa' = res.self
          /\ buf' = res.sink
          /\ outcome' = res.outcome
          /\ ret' = [ret EXCEPT !.w = res.ret]
    /\ pc' = "written"
    /\ UNCHANGED <<build, ty, a, b, sb, a0, sa0, sb0, buf0, buf2, nread,
                   stream, hist>>

\* sb.fio_read(&buf[..])
DoSliceRead ==
    /\ pc \in {"start", "written"} /\ outcome = "ok"
    /\ \E res \in SliceRead(sb, buf, build) :
          /\ sb' = res.self
          /\ outcome' = res.outcome
          /\ ret' = [ret EXCEPT !.r = res.ret]
    /\ pc' = IF pc = "start" THEN "rawread" ELSE "read"
    /\ UNCHANGED <<build, ty, a, b, sa, a0, sa0, sb0, buf, buf0, buf2, nread,
                   stream, hist>>

NextSlice == DoSliceWrite \/ DoSliceRead

SpecSlice == InitSlice /\ [][NextSlice]_vars

---------------------------------------------------------------------------
(* Standard integration (lib.rs 649-678).  The stream is the std::io       *)
(* Read + Write + Seek object the caller hands in: `data` are its bytes,   *)
(* `pos` its position, `cap` the number of bytes it accepts in all and     *)
(* `room` the number it still accepts.  write_all fails when the bytes do  *)
(* not fit (after none or some of them were taken); read_exact fails when  *)
(* fewer bytes are left than asked for.                                    *)

\* sink.write_all(bytes)
WriteAll(st, bytes) ==
    IF Len(bytes) <= st.room
    THEN {[ok |-> TRUE,
           stream |-> [st EXCEPT
              !.data = Prefix(st.data, st.pos) \o bytes
                       \o From(st.data, st.pos + Len(bytes)),
              !.pos = st.pos + Len(bytes),
              !.room = st.room - Len(bytes)]]}
    ELSE {[ok |-> FALSE,
           stream |-> [st EXCEPT
              !.data = Prefix(st.data, st.pos) \o Prefix(bytes, k)
                       \o From(st.data, st.pos + k),
              !.pos = st.pos + k,
              !.room = st.room - k]] : k \in {0, st.room}}

\* a read_exact that leaves the position where it was
ReadExact_NoAdvance(st, n) ==
    IF Len(st.data) - st.pos >= n
    THEN [ok |-> TRUE, bytes |-> SubSeq(st.data, st.pos + 1, st.pos + n),
          stream |-> st]
    ELSE [ok |-> FALSE, bytes |-> <<>>, stream |-> st]

\* source.read_exact(&mut obj[..]) for obj of n bytes
ReadExact(st, n) ==
    IF Len(st.data) - st.pos >= n
    THEN [ok |-> TRUE, bytes |-> SubSeq(st.data, st.pos + 1, st.pos + n),
          stream |-> [st EXCEPT !.pos = st.pos + n]]
    ELSE [ok |-> FALSE, bytes |-> <<>>,
          stream |-> [st EXCEPT !.pos = Len(st.data)]]

\* fio_write(object, sink): size_of::<T>() if write_all is ok, else 0
StreamWrite(t, object, st, bd) ==
    {[outcome |-> "ok", stream |-> w.stream,
      ret |-> IF w.ok THEN SizeOf(t) ELSE 0] :
        w \in WriteAll(st, MemoryOf(object, bd.endian))}

\* fio_read(object, source): read_exact(..).expect("failed to read")
StreamRead(t, object, st, bd) ==
    LET r == ReadExact(st, SizeOf(t))
    IN  IF r.ok
        THEN [outcome |-> "ok", object |-> ValueOf(r.bytes, bd.endian),
              stream |-> r.stream, ret |-> SizeOf(t)]
        ELSE [outcome |-> "panic", object |-> object, stream |-> r.stream,
              ret |-> 0]

---------------------------------------------------------------------------
(* The caller of the stream adapter, as test_read_write_i32: it writes     *)
(* scalars one after the other, seeks back to the start and reads as many  *)
(* back.                                                                   *)

\* the most calls of a kind the caller makes
MaxCalls == 3

\* the builds that differ for the stream adapter: the byte order
StreamBuilds ==
    {bd \in Builds : ~bd.overflowChecks /\ ~bd.unsafe /\ ~bd.safetyChecks}

\* the scalars the caller writes
CallValues(n) ==
    {Zero(n), FromBitSet(n, {0}), FromBitSet(n, {1, 8 * n - 1})}

InitStream ==
    /\ build \in StreamBuilds
    /\ ty \in FioTypes
    /\ a = Zero(SizeOf(ty)) /\ b = Zero(SizeOf(ty))
    /\ sa = <<>> /\ sb = <<>> /\ buf = <<>> /\ buf2 = <<>>
    /\ ret = NoRet /\ outcome = "ok" /\ nread = 0
    /\ pc = "writing"
    /\ \E c \in 0..(MaxCalls * SizeOf(ty)) :
          stream = [data |-> <<>>, pos |-> 0, room |-> c, cap |-> c]
    /\ hist = NoHist
    /\ buf0 = buf /\ a0 = a /\ sa0 = sa /\ sb0 = sb

\* test = v; fio_write(&mut test, &mut tmp_file)
DoStreamWrite ==
    /\ pc = "writing" /\ outcome = "ok" /\ Len(hist.wrote) < MaxCalls
    /\ \E v \in CallValues(SizeOf(ty)) :
          /\ a' = v
          /\ \E res \in StreamWrite(ty, v, stream, build) :
                /\ stream' = res.stream
                /\ outcome' = res.outcome
                /\ ret' = [ret EXCEPT !.w = res.ret]
                /\ hist' = [hist EXCEPT !.wrote = Append(@, v),
                                        !.rets = Append(@, res.ret)]
    /\ UNCHANGED <<build, ty, b, sa, sb, a0, sa0, sb0, buf, buf0, buf2, pc,
                   nread>>

\* tmp_file.seek(SeekFrom::Start(0))
DoSeekStart ==
    /\ pc = "writing" /\ outcome = "ok"
    /\ stream' = [stream EXCEPT !.pos = 0]
    /\ pc' = "reading"
    /\ UNCHANGED <<build, ty, a, b, sa, sb, a0, sa0, sb0, buf, buf0, buf2,
                   ret, outcome, nread, hist>>

\* fio_read(&mut test, &mut tmp_file)
DoStreamRead ==
    /\ pc = "reading" /\ outcome = "ok" /\ Len(hist.got) < Len(hist.wrote)
    /\ LET res == StreamRead(ty, b, stream, build)
       IN  /\ b' = res.object
           /\ stream' = res.stream
           /\ outcome' = res.outcome
           /\ ret' = [ret EXCEPT !.r = res.ret]
           /\ hist' = IF res.outcome = "ok"
                      THEN [hist EXCEPT !.got = Append(@, res.object)]
                      ELSE hist
    /\ UNCHANGED <<build, ty, a, sa, sb, a0, sa0, sb0, buf, buf0, buf2, pc,
                   nread>>

NextStream == DoStreamWrite \/ DoSeekStart \/ DoStreamRead

SpecStream == InitStream /\ [][NextStream]_vars

---------------------------------------------------------------------------
(* A caller that lays u32 values one after the other with the VLQ codec,   *)
(* taking each call's return value as the number of bytes by which to move *)
(* on, as the trait says of it (lib.rs 765-778): hist.off is its offset.   *)

\* the values laid out: of one, two and three encoded bytes
SeqValues ==
    {FromBitSet(4, {0}), FromBitSet(4, {1}), FromBitSet(4, {7}),
     FromBitSet(4, {14})}

InitSeq ==
    /\ build \in ArithBuilds
    /\ ty = "u32"
    /\ a = Zero(4) /\ b = Zero(4)
    /\ sa = <<>> /\ sb = <<>> /\ buf2 = <<>>
    /\ ret = NoRet /\ outcome = "ok" /\ nread = 0
    /\ pc = "writing"
    /\ \E f \in FillBytes : buf = [i \in 1..SinkLen |-> f]
    /\ stream = NoStream /\ hist = NoHist
    /\ buf0 = buf /\ a0 = a /\ sa0 = sa /\ sb0 = sb

\* off += v.vlq_write(&mut buf[off..])
DoSeqWrite ==
    /\ pc = "writing" /\ outcome = "ok" /\ Len(hist.wrote) < MaxCalls
    /\ \E v \in SeqValues :
          LET res == VlqWrite(v, From(buf, hist.off))
          IN  /\ a' = v
              /\ buf' = Prefix(buf, hist.off) \o res.sink
              /\ outcome' = res.outcome
              /\ ret' = [ret EXCEPT !.w = res.ret]
              /\ hist' = [hist EXCEPT !.wrote = Append(@, v),
                                      !.rets = Append(@, res.ret),
                                      !.off = @ + res.ret]
    /\ UNCHANGED <<build, ty, b, sa, sb, a0, sa0, sb0, buf0, buf2, pc, nread,
                   stream>>

\* off = 0
DoSeqRewind ==
    /\ pc = "writing" /\ outcome = "ok"
    /\ hist' = [hist EXCEPT !.off = 0]
    /\ pc' = "reading"
    /\ UNCHANGED <<build, ty, a, b, sa, sb, a0, sa0, sb0, buf, buf0, buf2,
                   ret, outcome, nread, stream>>

\* off += b.vlq_read(&buf[off..])
DoSeqRead ==
    /\ pc = "reading" /\ outcome = "ok" /\ Len(hist.got) < Len(hist.wrote)
    /\ LET res == VlqRead(b, From(buf, hist.off), Ceiling(ty), build)
       IN  /\ b' = res.self
           /\ outcome' = res.outcome
           /\ nread' = res.nread
           /\ ret' = [ret EXCEPT !.r = res.ret]
           /\ hist' = IF res.outcome = "ok"
                      THEN [hist EXCEPT !.got = Append(@, res.self),
                                        !.off = @ + res.ret]
                      ELSE hist
    /\ UNCHANGED <<build, ty, a, sa, sb, a0, sa0, sb0, buf, buf0, buf2, pc,
                   stream>>

NextSeq == DoSeqWrite \/ DoSeqRewind \/ DoSeqRead

SpecSeq == InitSeq /\ [][NextSeq]_vars

---------------------------------------------------------------------------
(* What the claims speak of, stated apart from the code.                   *)

\* bit p (0 = lowest) of the scalar x
BitAt(x, p) == (Digit(x, (p \div 8) + 1) \div Pow2(p % 8)) % 2

\* the number of bits of x: 0 for 0, else the highest set bit's place + 1
BitLen(x) ==
    LET set == {p \in 0..(8 * Len(x) - 1) : BitAt(x, p) = 1}
    IN  IF set = {} THEN 0
        ELSE (CHOOSE p \in set : \A q \in set : q <= p) + 1

\* max(1, ceil(bitlen(x) / 7))
EncodedLen(x) == IF BitLen(x) = 0 THEN 1 ELSE (BitLen(x) + 6) \div 7

\* (x >> (7 * i)) & 0x7F
Group(x, i) ==
    BitAt(x, 7 * i) + 2 * BitAt(x, 7 * i + 1) + 4 * BitAt(x, 7 * i + 2)
    + 8 * BitAt(x, 7 * i + 3) + 16 * BitAt(x, 7 * i + 4)
    + 32 * BitAt(x, 7 * i + 5) + 64 * BitAt(x, 7 * i + 6)

\* whether src has a byte with the high bit clear, and the first one's index
HasTerminator(src) == \E i \in 1..Len(src) : src[i] < 128

FirstTerminator(src) ==
    (CHOOSE i \in 1..Len(src) :
        src[i] < 128 /\ \A j \in 1..(i - 1) : src[j] >= 128) - 1

VlqWritten == pc \in {"written", "read"}

VlqReadDone == pc \in {"read", "rawread"}

---------------------------------------------------------------------------
(* The claims about the VLQ codec, under SpecVlq.                          *)

\* C1: vlq_write (u32 and u64) on a sufficiently large sink returns the
\* count of bytes it emitted, max(1, ceil(bitlen(v)/7)): 1 when v < 128,
\* 2 when 128 <= v < 16384.
C1_WriteReturnsCount == VlqWritten => ret.w = EncodedLen(a)

\* C2: on a source in which a byte with the high bit clear occurs before
\* the bit ceiling, vlq_read (u32 and u64) returns the number of source
\* bytes it consumed: the index of the terminating byte plus one.
C2_ReadReturnsConsumed ==
    (/\ VlqReadDone
     /\ HasTerminator(buf)
     /\ 7 * FirstTerminator(buf) < Ceiling(ty))
    => /\ outcome = "ok"
       /\ ret.r = FirstTerminator(buf) + 1
       /\ ret.r = nread

\* C3: VLQ round trip: vlq_write of v followed by vlq_read from the same
\* buffer yields v, and vlq_read returns what vlq_write returned.
C3_VlqRoundTrip ==
    pc = "read" => (outcome = "ok" /\ b = a /\ ret.r = ret.w)

\* C3 witness: the largest u64 went through the round trip (ten bytes).
C3_Witness ==
    /\ pc = "read" /\ ty = "u64" /\ outcome = "ok"
    /\ a = Ones(8, 64) /\ b = a /\ nread = 10

\* C4: VLQ wire layout: vlq_write emits exactly n = max(1, ceil(bitlen/7))
\* bytes at sink[0..n], byte i being (v >> 7i) & 0x7F with bit 7 set on
\* every byte but the last; the rest of the sink is untouched; the last
\* byte is nonzero unless v = 0; 0 is [0x00], 127 [0x7F], 128 [0x80, 0x01].
C4_WireLayout ==
    pc = "written" =>
        LET n == EncodedLen(a)
        IN  /\ outcome = "ok"
            /\ \A i \in 0..(n - 1) :
                  buf[i + 1] = Group(a, i) + (IF i < n - 1 THEN 128 ELSE 0)
            /\ \A i \in n..(Len(buf) - 1) : buf[i + 1] = buf0[i + 1]
            /\ (a # Zero(Len(a)) => buf[n] # 0)
            /\ (a = Zero(Len(a)) => n = 1 /\ buf[1] = 0)
            /\ (a = Ones(Len(a), 7) => n = 1 /\ buf[1] = 127)
            /\ (a = FromBitSet(Len(a), {7}) =>
                    n = 2 /\ buf[1] = 128 /\ buf[2] = 1)

\* C4 witness: 128 was written as [0x80, 0x01] into a sink of 0xFF bytes.
C4_Witness ==
    /\ pc = "written" /\ outcome = "ok" /\ a = FromBitSet(Len(a), {7})
    /\ buf[1] = 128 /\ buf[2] = 1 /\ buf[3] = 255

\* C5: vlq_read on u64 stops at the first byte whose high bit is clear or
\* when the bit offset reaches the ceiling 71: on every source it reads at
\* most 11 bytes and then returns.
C5_Read64Bounded ==
    (VlqReadDone /\ ty = "u64") => (outcome = "ok" /\ nread <= 11)

---------------------------------------------------------------------------
(* The claims about the VLQ-length string framing, under SpecStr.          *)

\* the String's length as a scalar of the length type
LengthField == FromUsize(Len(sa0), ty)

\* C6: VLQ-length string round trip: vlq_string_write of s into a large
\* enough buffer followed by vlq_string_read from that buffer reproduces s
\* exactly (same length, same bytes), for every length, 128 and more too.
C6_VlqStringRoundTrip ==
    pc = "vlq_read" => (outcome = "ok" /\ sb = sa0)

\* C7: vlq_string_write writes the VLQ encoding of L at sink[0..w], then
\* the L bytes of s at sink[w..w+L], and returns w + L.
C7_VlqStringLayout ==
    pc = "vlq_written" =>
        LET L == Len(sa0)
            w == EncodedLen(LengthField)
        IN  /\ outcome = "ok"
            /\ \A i \in 0..(w - 1) :
                  buf[i + 1] = Group(LengthField, i)
                               + (IF i < w - 1 THEN 128 ELSE 0)
            /\ \A i \in 0..(L - 1) : buf[w + i + 1] = sa0[i + 1]
            /\ ret.w = w + L

---------------------------------------------------------------------------
(* The claims about the fixed-width-length string framing, under SpecStr.  *)

\* the four bytes of a u32 below 2^16 in the byte order of the host
NativeU32(n, endian) ==
    IF endian = "little" THEN <<n % 256, n \div 256, 0, 0>>
    ELSE <<0, 0, n \div 256, n % 256>>

\* C8: fio_string_write::<u32> of s (length L) into a buffer of 4 + L bytes
\* returns 4 + L, puts the native-order encoding of L in sink[0..4] and the
\* bytes of s in sink[4..4+L]; fio_string_read::<u32> of that buffer into
\* any string returns 4 + L and leaves that string equal to s.
C8_FioStringRoundTrip ==
    ty = "u32" =>
        /\ pc = "fio_written" =>
              /\ outcome = "ok"
              /\ ret.w = 4 + Len(sa0)
              /\ Len(buf) = 4 + Len(sa0)
              /\ Prefix(buf, 4) = NativeU32(Len(sa0), build.endian)
              /\ From(buf, 4) = sa0
        /\ pc = "fio_read" =>
              /\ outcome = "ok"
              /\ ret.r = 4 + Len(sa0)
              /\ sb = sa0

\* C8 witness: a string of 130 bytes was written with a u32 length on a
\* big-endian host and read back.
C8_Witness ==
    /\ pc = "fio_read" /\ ty = "u32" /\ build.endian = "big"
    /\ outcome = "ok" /\ Len(sa0) = 130 /\ sb = sa0 /\ ret.r = 134
    /\ Prefix(buf, 4) = <<0, 0, 0, 130>>

---------------------------------------------------------------------------
(* The claims about the fixed-width codec, under SpecFio.                  *)

\* C9: fixed-width round trip: for every width W in {1, 2, 4, 8}, fio_write
\* of v into a buffer of at least W bytes followed by fio_read from it
\* yields v, both calls return W, and fio_write leaves v unchanged.
C9_FixedRoundTrip ==
    Len(buf) >= SizeOf(ty) =>
        /\ pc = "written" =>
              (outcome = "ok" /\ ret.w = SizeOf(ty) /\ a = a0)
        /\ pc = "read" =>
              /\ outcome = "ok"
              /\ ret.w = SizeOf(ty) /\ ret.r = SizeOf(ty)
              /\ b = a0 /\ a = a0

\* C9 witness: 2^63 + 1 went through a buffer of a big-endian host.
C9_Witness ==
    /\ pc = "read" /\ ty = "u64" /\ build.endian = "big" /\ outcome = "ok"
    /\ a0 = <<1, 0, 0, 0, 0, 0, 0, 128>> /\ b = a0
    /\ Prefix(buf, 8) = <<128, 0, 0, 0, 0, 0, 0, 1>>

\* C10: native byte order: for W in {2, 4, 8} and a source of at least W
\* bytes, fio_read sets the value to the host's reading of source[0..W]
\* (little-endian: the sum of source[i] << 8i; big-endian: the mirror) and
\* returns W; a following fio_write of the value into another sink writes
\* exactly source[0..W] into sink[0..W] and returns W.
C10_NativeOrder ==
    (SizeOf(ty) >= 2 /\ Len(buf) >= SizeOf(ty)) =>
        LET n == SizeOf(ty)
        IN  /\ pc \in {"read", "rawread"} =>
                  /\ outcome = "ok"
                  /\ ret.r = n
                  /\ \A i \in 0..(n - 1) :
                        IF build.endian = "little"
                        THEN b[i + 1] = buf[i + 1]
                        ELSE b[n - i] = buf[i + 1]
            /\ pc \in {"rewritten", "rawrewritten"} =>
                  /\ outcome = "ok"
                  /\ ret.w2 = n
                  /\ Prefix(buf2, n) = Prefix(buf, n)
                  /\ From(buf2, n) = <<170>>

\* C10 witness: on a big-endian host the source 01 01 FE FE was read as
\* 0x0101FEFE and written back as 01 01 FE FE.
C10_Witness ==
    /\ pc = "rawrewritten" /\ ty = "u32" /\ build.endian = "big"
    /\ outcome = "ok"
    /\ Prefix(buf, 4) = <<1, 1, 254, 254>>
    /\ b = <<254, 254, 1, 1>>
    /\ Prefix(buf2, 4) = <<1, 1, 254, 254>>

---------------------------------------------------------------------------
(* The claim about the [u8] primitive, under SpecSlice.                    *)

\* C11: whenever len(self) <= len(peer), [u8]::fio_write copies self[0..n]
\* to sink[0..n] (n = len(self)), from offset 0 of both, returns n and
\* leaves sink[n..] and self unchanged; [u8]::fio_read copies source[0..n]
\* into self[0..n] and returns n.
C11_SlicePrimitive ==
    /\ (pc = "written" /\ Len(sa0) <= Len(buf0)) =>
          /\ outcome = "ok"
          /\ ret.w = Len(sa0)
          /\ Len(buf) = Len(buf0)
          /\ \A i \in 1..Len(buf) :
                buf[i] = IF i <= Len(sa0) THEN sa0[i] ELSE buf0[i]
          /\ sa = sa0
    /\ (pc \in {"read", "rawread"} /\ Len(sb0) <= Len(buf)) =>
          /\ outcome = "ok"
          /\ ret.r = Len(sb0)
          /\ Len(sb) = Len(sb0)
          /\ \A i \in 1..Len(sb) : sb[i] = buf[i]

\* C11 witness: two bytes were written to the head of a sink of four, and
\* three bytes were then read from it.
C11_Witness ==
    /\ pc = "read" /\ outcome = "ok"
    /\ sa0 = <<1, 254>> /\ buf0 = <<255, 255, 255, 255>>
    /\ buf = <<1, 254, 255, 255>> /\ ret.w = 2
    /\ sb0 = <<1, 1, 1>> /\ sb = <<1, 254, 255>> /\ ret.r = 3

---------------------------------------------------------------------------
(* The claim about the stream adapter, under SpecStream.                   *)

\* the stream accepts every byte of the writes made so far
AcceptsAll == Len(hist.wrote) * SizeOf(ty) <= stream.cap

---------------------------------------------------------------------------
(* The claim about the 32-bit ceiling, under SpecVlq.                      *)

\* bit p of the value the 7-bit groups of the first n source bytes make up
GroupBit(src, n, p) ==
    IF p \div 7 < n THEN (src[(p \div 7) + 1] \div Pow2(p % 7)) % 2 ELSE 0

\* C13: vlq_read on u32 reads at most 5 source bytes from any source; when
\* the first five bytes all have the continuation bit set the loop exits
\* once the bit offset reaches 35, no error is signalled, and the result is
\* the value of the 7-bit groups read, truncated to 32 bits, with no
\* arithmetic overflow in the accumulation (overflow checks on or off).
C13_Read32Bounded ==
    (VlqReadDone /\ ty = "u32") =>
        /\ outcome = "ok"
        /\ nread <= 5
        /\ (\A i \in 1..5 : buf[i] >= 128) => nread = 5
        /\ \A p \in 0..31 : BitAt(b, p) = GroupBit(buf, nread, p)

\* C13 witness: a source of 0xFF bytes only was read under overflow checks;
\* five bytes were consumed and the value is 2^32 - 1.
C13_Witness ==
    /\ pc = "rawread" /\ ty = "u32" /\ build.overflowChecks
    /\ \A i \in 1..Len(buf) : buf[i] = 255
    /\ outcome = "ok" /\ nread = 5
    /\ b = <<255, 255, 255, 255>>

---------------------------------------------------------------------------
(* The claims about what the string calls leave in the String, under       *)
(* SpecStr.                                                                *)

\* the value of the 7-bit groups of src[i+1..w], lowest group first
RECURSIVE WireValue(_, _, _)
WireValue(src, i, w) ==
    IF i >= w THEN 0
    ELSE (src[i + 1] % 128) + 128 * WireValue(src, i + 1, w)

\* C14: for every source that starts with a VLQ length field of encoded
\* width w whose decoded value is n, followed by at least n payload bytes,
\* vlq_string_read leaves the String with exactly the n bytes
\* source[w..w+n], whatever it held before, and returns w + n.
C14_VlqStringReadExact ==
    (pc = "vlq_rawread" /\ HasTerminator(buf)) =>
        LET w == FirstTerminator(buf) + 1
            n == WireValue(buf, 0, w)
        IN  Len(buf) >= w + n =>
               /\ outcome = "ok"
               /\ sb = SubSeq(buf, w + 1, w + n)
               /\ ret.r = w + n

\* C15: after fio_string_write or vlq_string_write the String has the same
\* length and the same bytes it had before the call, for every length, 0
\* and 128 and more too.
C15_WriteKeepsString ==
    pc \in {"fio_written", "vlq_written"} => sa = sa0

---------------------------------------------------------------------------
(* The claim about return values as offsets, under SpecSeq.                *)

\* C16: for any sequence of u32 values v1..vn, writing each with vlq_write
\* at the offset equal to the sum of the previous calls' return values and
\* then reading n values with vlq_read, advancing the offset by each call's
\* return value, yields v1..vn in order.
C16_ReturnsCompose ==
    pc = "reading" =>
        /\ outcome = "ok"
        /\ \A j \in 1..Len(hist.got) : hist.got[j] = hist.wrote[j]

===========================================================================
